---- MODULE Spec2Model ----
(***************************************************************************)
(* Model of parse_complexity.py: the path normaliser, the two upsert       *)
(* closures of main, the per-tool extractors and main's merge pipeline.    *)
(*                                                                         *)
(* Representation.                                                         *)
(*  - A path string is [abs, segs]: abs says whether it starts with "/",   *)
(*    segs are its "/"-separated components ("." and ".." included).  The  *)
(*    normalised string "." is the relative path with no components.       *)
(*  - A dict is a function from field names to values; d1 @@ d2 is         *)
(*    d2.update(d1).                                                       *)
(*  - temp_file_metrics / temp_symbol_metrics are sequences of             *)
(*    [key, data] in insertion order (Python dicts iterate in insertion    *)
(*    order, which the fallback scan of main depends on).                  *)
(*  - Floats with one decimal (mi_score, average_cc_score) are counted in  *)
(*    tenths: 92.3 is 923.                                                 *)
(*  - An optional value is a sequence of length 0 or 1.                    *)
(*  - A section of the report is kept at the level of the items its        *)
(*    regular expressions recognise (blocks, lines, rows, sentences).      *)
(***************************************************************************)
EXTENDS Integers, Sequences, FiniteSets, TLC

VARIABLES project_root_path, temp_file_metrics, temp_symbol_metrics,
          overall_summary, file_level_metrics, symbol_level_metrics,
          report, pc, call, ncalls

vars == <<project_root_path, temp_file_metrics, temp_symbol_metrics,
          overall_summary, file_level_metrics, symbol_level_metrics,
          report, pc, call, ncalls>>

(***************************************************************************)
(* Bounds                                                                  *)
(***************************************************************************)
MaxRecs == 2
MaxCalls == 2

(***************************************************************************)
(* Generic helpers                                                         *)
(***************************************************************************)
EmptyDict == [k \in {} |-> 0]

Put(d, k, v) == (k :> v) @@ d

Has(d, k) == k \in DOMAIN d

SeqsUpTo(S, n) == UNION {[1..m -> S] : m \in 0..n}

Opt(S) == {<<>>} \cup {<<x>> : x \in S}

Pth(a, s) == [abs |-> a, segs |-> s]

(***************************************************************************)
(* os.path                                                                 *)
(***************************************************************************)
RECURSIVE NormSegs(_, _, _)
NormSegs(segs, abs, acc) ==
    IF segs = <<>> THEN acc
    ELSE LET comp == Head(segs)
             rest == Tail(segs)
         IN IF comp = "" \/ comp = "." THEN NormSegs(rest, abs, acc)
            ELSE IF \/ comp # ".."
                    \/ (~abs /\ acc = <<>>)
                    \/ (acc # <<>> /\ acc[Len(acc)] = "..")
                 THEN NormSegs(rest, abs, Append(acc, comp))
                 ELSE IF acc # <<>>
                      THEN NormSegs(rest, abs, SubSeq(acc, 1, Len(acc) - 1))
                      ELSE NormSegs(rest, abs, acc)

normpath(p) == Pth(p.abs, NormSegs(p.segs, p.abs, <<>>))

isabs(p) == p.abs

basename(p) ==
    IF p.segs = <<>> THEN (IF p.abs THEN "" ELSE ".")
    ELSE p.segs[Len(p.segs)]

dirname(p) ==
    IF p.segs = <<>> THEN Pth(p.abs, <<>>)
    ELSE Pth(p.abs, SubSeq(p.segs, 1, Len(p.segs) - 1))

join(a, b) == IF b.abs THEN b ELSE Pth(a.abs, a.segs \o b.segs)

\* norm_p.split(os.sep) of a normalised relative path
split(p) == IF p.segs = <<>> THEN <<".">> ELSE p.segs

(***************************************************************************)
(* get_normalized_path; base is [found, path], found = FALSE for None      *)
(***************************************************************************)
get_normalized_path(path, base) ==
    LET norm_p == normpath(path)
    IN IF base.found /\ ~isabs(norm_p)
       THEN IF /\ basename(base.path) = split(norm_p)[1]
               /\ Len(split(norm_p)) > 1
            THEN normpath(join(dirname(base.path), norm_p))
            ELSE normpath(join(base.path, norm_p))
       ELSE norm_p

(***************************************************************************)
(* The stores                                                              *)
(***************************************************************************)
HasKey(store, key) == \E i \in 1..Len(store) : store[i].key = key

Idx(store, key) == CHOOSE i \in 1..Len(store) : store[i].key = key

Entity(store, key) == store[Idx(store, key)].data

Keys(store) == {store[i].key : i \in 1..Len(store)}

(***************************************************************************)
(* update_file_metric                                                      *)
(***************************************************************************)
update_file_metric_Replace(tfm, base, path, data_dict) ==
    LET norm_path == get_normalized_path(path, base)
        created == IF HasKey(tfm, norm_path) THEN tfm
                   ELSE Append(tfm, [key |-> norm_path,
                                     data |-> [file_path |-> norm_path]])
        i == Idx(created, norm_path)
    IN [created EXCEPT ![i].data = data_dict @@ [file_path |-> norm_path]]

update_file_metric(tfm, base, path, data_dict) ==
    LET norm_path == get_normalized_path(path, base)
        created == IF HasKey(tfm, norm_path) THEN tfm
                   ELSE Append(tfm, [key |-> norm_path,
                                     data |-> [file_path |-> norm_path]])
        i == Idx(created, norm_path)
    IN [created EXCEPT ![i].data = data_dict @@ @]

(***************************************************************************)
(* update_symbol_metric                                                    *)
(***************************************************************************)
\* the insertion order of the dict literals the extractors build
FieldOrder == <<"file_path", "symbol_type", "symbol_name", "cc_rank",
                "cc_score", "complexipy_path", "file_name_complexipy",
                "symbol_name_complexipy", "cognitive_complexity">>

items(data_dict) == SelectSeq(FieldOrder, LAMBDA k : k \in DOMAIN data_dict)

RECURSIVE MergeItems(_, _, _)
MergeItems(current_data, data_dict, ks) ==
    IF ks = <<>> THEN current_data
    ELSE LET k == Head(ks)
             v == data_dict[k]
             nxt == IF /\ k = "symbol_name_complexipy"
                       /\ Has(current_data, "symbol_name")
                       /\ current_data["symbol_name"] # v
                    THEN Put(current_data, "symbol_name_complexipy_alt", v)
                    ELSE IF /\ k = "symbol_name"
                            /\ Has(current_data, "symbol_name_complexipy")
                            /\ current_data["symbol_name_complexipy"] # v
                         THEN Put(current_data, "symbol_name_original_alt", v)
                         ELSE Put(current_data, k, v)
         IN MergeItems(nxt, data_dict, Tail(ks))

update_symbol_metric_Overwrite(tsm, base, path, symbol_name, data_dict) ==
    LET norm_path == get_normalized_path(path, base)
        key == <<norm_path, symbol_name>>
        created == IF HasKey(tsm, key) THEN tsm
                   ELSE Append(tsm, [key |-> key,
                                     data |-> [file_path |-> norm_path,
                                               symbol_name |-> symbol_name]])
        i == Idx(created, key)
    IN [created EXCEPT ![i].data = data_dict @@ @]

update_symbol_metric(tsm, base, path, symbol_name, data_dict) ==
    LET norm_path == get_normalized_path(path, base)
        key == <<norm_path, symbol_name>>
        created == IF HasKey(tsm, key) THEN tsm
                   ELSE Append(tsm, [key |-> key,
                                     data |-> [file_path |-> norm_path,
                                               symbol_name |-> symbol_name]])
        i == Idx(created, key)
    IN [created EXCEPT ![i].data = MergeItems(@, data_dict, items(data_dict))]

(***************************************************************************)
(* The extractors.  Each consumes the items its regular expressions        *)
(* recognise in a section body and returns the dicts it builds.            *)
(***************************************************************************)
get_custom_mi_rank_Strict(mi_score) ==
    IF mi_score > 850 THEN "Excellent"
    ELSE IF mi_score > 650 THEN "Good"
    ELSE IF mi_score > 500 THEN "Moderate"
    ELSE "Difficult"

get_custom_mi_rank(mi_score) ==
    IF mi_score >= 850 THEN "Excellent"
    ELSE IF mi_score >= 650 THEN "Good"
    ELSE IF mi_score >= 500 THEN "Moderate"
    ELSE "Difficult"

\* section_text = [blocks, total]: the "<path>.py / LOC / LLOC / SLOC /
\* Comments" blocks and the optional "** Total **" block of the text given
parse_radon_raw_section(section_text) ==
    [files |-> [i \in 1..Len(section_text.blocks) |->
                  LET m == section_text.blocks[i]
                  IN [file_path |-> m.path, loc |-> m.loc, lloc |-> m.lloc,
                      sloc |-> m.sloc, comments |-> m.comments]],
     totals |-> IF section_text.total = <<>> THEN EmptyDict
                ELSE LET t == section_text.total[1]
                     IN [total_loc_radon |-> t.loc,
                         total_lloc_radon |-> t.lloc,
                         total_sloc_radon |-> t.sloc,
                         total_comments_radon |-> t.comments]]

symbol_type_map(tag) ==
    CASE tag = "F" -> "function"
      [] tag = "M" -> "method"
      [] tag = "C" -> "class"
      [] OTHER -> "unknown"

\* the loop over the lines: acc = [symbols, current_file, avg_cc];
\* current_file and avg_cc are optional
RECURSIVE CCLines(_, _)
CCLines(lines, acc) ==
    IF lines = <<>> THEN acc
    ELSE LET line == Head(lines)
         IN IF line.kind = "file"
            THEN CCLines(Tail(lines), [acc EXCEPT !.current_file = <<line.path>>])
            ELSE IF line.kind = "block" /\ acc.current_file # <<>>
            THEN CCLines(Tail(lines),
                     [acc EXCEPT !.symbols = Append(@,
                         [file_path |-> acc.current_file[1],
                          symbol_type |-> symbol_type_map(line.tag),
                          symbol_name |-> line.name,
                          cc_rank |-> line.rank,
                          cc_score |-> line.score])])
            ELSE IF line.kind = "average"
            THEN CCLines(Tail(lines),
                     [acc EXCEPT !.avg_cc =
                         [average_cc_rank_radon |-> line.rank,
                          average_cc_score |-> line.score]])
            ELSE CCLines(Tail(lines), acc)

parse_radon_cc_section(section_text) ==
    LET r == CCLines(section_text,
                     [symbols |-> <<>>, current_file |-> <<>>,
                      avg_cc |-> EmptyDict])
    IN [symbols |-> r.symbols, average |-> r.avg_cc]

\* a line is [info, path, rank, score]: info marks an "[INFO]" line
parse_radon_mi_section(section_text) ==
    LET kept == SelectSeq(section_text, LAMBDA line : ~line.info)
    IN [files |-> [i \in 1..Len(kept) |->
                      [file_path |-> kept[i].path,
                       mi_score |-> kept[i].score,
                       mi_rank_custom |-> get_custom_mi_rank(kept[i].score)]]]

\* The section text holds at most one sentence
\*   "<prefix> Flake8 found <count><functions><threshold>"
\* with prefix "[WARNING]" iff warning, functions = " function(s)" present,
\* threshold = " with CC > <digits>." present after it.
FLAKE8_SUMMARY_RE(s) == s.warning /\ s.functions /\ s.threshold

ContainsFoundZero(s) == s.count = 0 /\ s.functions

parse_flake8_section_NoSentinel(section_text) ==
    IF section_text # <<>> /\ FLAKE8_SUMMARY_RE(section_text[1])
    THEN [flake8_high_cc_functions_count |-> section_text[1].count]
    ELSE [flake8_high_cc_functions_count |-> 0]

parse_flake8_section(section_text) ==
    IF section_text # <<>> /\ FLAKE8_SUMMARY_RE(section_text[1])
    THEN [flake8_high_cc_functions_count |-> section_text[1].count]
    ELSE IF section_text # <<>> /\ ContainsFoundZero(section_text[1])
    THEN [flake8_high_cc_functions_count |-> 0]
    ELSE [flake8_high_cc_functions_count |-> -1]

\* section_text = [rows, total]: the table rows and the optional
\* "Total Cognitive Complexity: <n>" line
parse_complexipy_section(section_text) ==
    [symbols |-> [i \in 1..Len(section_text.rows) |->
                    LET m == section_text.rows[i]
                    IN [complexipy_path |-> m.path,
                        file_name_complexipy |-> m.file,
                        symbol_name_complexipy |-> m.symbol,
                        cognitive_complexity |-> m.score]],
     total_cognitive_complexity |->
        IF section_text.total = <<>> THEN 0 ELSE section_text.total[1]]

(***************************************************************************)
(* main: the section locator.  report is                                   *)
(*   [target, raw, cc, mi, flake8, complexipy]                             *)
(* target is the optional path of the "Analyzing code complexity for:"     *)
(* line; each section has present = its header was found.                  *)
(***************************************************************************)
NoRoot == [found |-> FALSE, path |-> Pth(FALSE, <<>>)]

\* lines 252-255
DetectRoot(rep) ==
    IF rep.target = <<>> THEN NoRoot
    ELSE [found |-> TRUE, path |-> normpath(rep.target[1])]

radon_raw_files_match(rep) == rep.raw.present

\* the "** Total **" block is searched in the whole content; only the
\* raw section prints one
radon_raw_total_match(rep) == rep.raw.present /\ rep.raw.total # <<>>

\* the pattern needs "Average complexity:" inside the section
radon_cc_match(rep) ==
    /\ rep.cc.present
    /\ \E i \in 1..Len(rep.cc.lines) : rep.cc.lines[i].kind = "average"

radon_mi_match(rep) == rep.mi.present

flake8_match(rep) == rep.flake8.present

complexipy_match(rep) == rep.complexipy.present

(***************************************************************************)
(* main: the merge loops, as functions of the stores                       *)
(***************************************************************************)
RECURSIVE UpdateFiles(_, _, _)
UpdateFiles(tfm, base, fms) ==
    IF fms = <<>> THEN tfm
    ELSE UpdateFiles(update_file_metric(tfm, base, Head(fms).file_path, Head(fms)),
                     base, Tail(fms))

RECURSIVE UpdateSymbols(_, _, _)
UpdateSymbols(tsm, base, sms) ==
    IF sms = <<>> THEN tsm
    ELSE UpdateSymbols(update_symbol_metric(tsm, base, Head(sms).file_path,
                                            Head(sms).symbol_name, Head(sms)),
                       base, Tail(sms))

\* the candidates of the fallback scan, in iteration order
FallbackMatches(tsm, sm_complexipy) ==
    {i \in 1..Len(tsm) :
        /\ basename(tsm[i].key[1]) = sm_complexipy.file_name_complexipy
        /\ tsm[i].key[2] = sm_complexipy.symbol_name_complexipy}

Min(S) == CHOOSE x \in S : \A y \in S : x <= y

\* one iteration of the loop of lines 379-410
ReconcileRow(tsm, base, sm_complexipy) ==
    LET path_for_merging ==
            get_normalized_path(sm_complexipy.complexipy_path, base)
        key_to_check ==
            <<path_for_merging, sm_complexipy.symbol_name_complexipy>>
    IN IF HasKey(tsm, key_to_check)
       THEN update_symbol_metric(tsm, base, path_for_merging,
                sm_complexipy.symbol_name_complexipy, sm_complexipy)
       ELSE IF FallbackMatches(tsm, sm_complexipy) # {}
       THEN LET e == tsm[Min(FallbackMatches(tsm, sm_complexipy))]
            IN update_symbol_metric(tsm, base, e.key[1], e.key[2],
                                    sm_complexipy)
       ELSE update_symbol_metric(tsm, base, path_for_merging,
                sm_complexipy.symbol_name_complexipy, sm_complexipy)

RECURSIVE ReconcileRows(_, _, _)
ReconcileRows(tsm, base, sms) ==
    IF sms = <<>> THEN tsm
    ELSE ReconcileRows(ReconcileRow(tsm, base, Head(sms)), base, Tail(sms))

(***************************************************************************)
(* main: one phase per tool, on st = [files, symbols, summary]             *)
(***************************************************************************)
Truthy(d, k) == Has(d, k) /\ d[k] # 0

\* lines 327-351
RadonRawPhase(st, rep, base) ==
    LET files_text == [blocks |-> rep.raw.blocks, total |-> <<>>]
        total_text == [blocks |-> <<>>, total |-> rep.raw.total]
        f1 == IF radon_raw_files_match(rep)
              THEN UpdateFiles(st.files, base,
                               parse_radon_raw_section(files_text).files)
              ELSE st.files
        s1 == IF radon_raw_total_match(rep)
              THEN parse_radon_raw_section(total_text).totals @@ st.summary
              ELSE IF /\ radon_raw_files_match(rep)
                      /\ ~Truthy(st.summary, "total_sloc_radon")
                   THEN parse_radon_raw_section(files_text).totals @@ st.summary
                   ELSE st.summary
    IN [st EXCEPT !.files = f1, !.summary = s1]

\* lines 353-359
RadonCCPhase(st, rep, base) ==
    IF radon_cc_match(rep)
    THEN LET radon_cc_data == parse_radon_cc_section(rep.cc.lines)
         IN [st EXCEPT
               !.symbols = UpdateSymbols(@, base, radon_cc_data.symbols),
               !.summary = radon_cc_data.average @@ @]
    ELSE st

\* lines 361-365
RadonMIPhase(st, rep, base) ==
    IF radon_mi_match(rep)
    THEN [st EXCEPT !.files = UpdateFiles(@, base,
                        parse_radon_mi_section(rep.mi.lines).files)]
    ELSE st

\* lines 367-371
Flake8Phase(st, rep, base) ==
    IF flake8_match(rep)
    THEN [st EXCEPT !.summary = parse_flake8_section(rep.flake8.sentence) @@ @]
    ELSE st

TotalCognitive_OnlyPositive(summary, section_text) ==
    LET complexipy_data == parse_complexipy_section(section_text)
    IN IF complexipy_data.total_cognitive_complexity > 0
       THEN Put(summary, "total_cognitive_complexity",
                complexipy_data.total_cognitive_complexity)
       ELSE summary

\* lines 412-426
TotalCognitive(summary, section_text) ==
    LET complexipy_data == parse_complexipy_section(section_text)
    IN IF complexipy_data.total_cognitive_complexity > 0
       THEN Put(summary, "total_cognitive_complexity",
                complexipy_data.total_cognitive_complexity)
       ELSE IF /\ ~Has(summary, "total_cognitive_complexity")
               /\ section_text.total # <<>>
            THEN Put(summary, "total_cognitive_complexity",
                     section_text.total[1])
            ELSE summary

\* lines 373-426
ComplexipyPhase(st, rep, base) ==
    IF complexipy_match(rep)
    THEN LET section_text == [rows |-> rep.complexipy.rows,
                              total |-> rep.complexipy.total]
         IN [st EXCEPT
               !.symbols = ReconcileRows(@, base,
                              parse_complexipy_section(section_text).symbols),
               !.summary = TotalCognitive(@, section_text)]
    ELSE st

(***************************************************************************)
(* main: the final sorts (lines 430-442); sorted() is stable               *)
(***************************************************************************)
StableSort(seq, keys) ==
    LET n == Len(seq)
        rank(i) == 1 + Cardinality({j \in 1..n :
                          \/ keys[j] < keys[i]
                          \/ (keys[j] = keys[i] /\ j < i)})
    IN [p \in 1..n |-> seq[CHOOSE i \in 1..n : rank(i) = p]]

Values(store) == [i \in 1..Len(store) |-> store[i].data]

\* x.get("mi_score", -1), in tenths
MiKey(x) == IF Has(x, "mi_score") THEN x["mi_score"] ELSE -10

\* x.get("cc_score", -1) under reverse=True
CcKey(x) == IF Has(x, "cc_score") THEN 0 - x["cc_score"] ELSE 1

(***************************************************************************)
(* Bounded inputs                                                          *)
(***************************************************************************)
P_rel == Pth(FALSE, <<"pkg", "a.py">>)
P_pre == Pth(FALSE, <<"proj", "pkg", "a.py">>)
P_abs == Pth(TRUE, <<"proj", "pkg", "a.py">>)
P_lib == Pth(FALSE, <<"lib", "a.py">>)
P_bare == Pth(FALSE, <<"a.py">>)

\* "/proj/" and "work/proj"
T_abs == Pth(TRUE, <<"proj", "">>)
T_rel == Pth(FALSE, <<"work", "proj">>)

Targets == {<<>>, <<T_abs>>, <<T_rel>>}

Counters(p, a, b, c, d) ==
    [path |-> p, loc |-> a, lloc |-> b, sloc |-> c, comments |-> d]

RawBlockPool == {Counters(P_rel, 10, 8, 9, 1), Counters(P_pre, 20, 16, 18, 2),
                 Counters(P_lib, 0, 0, 0, 0)}

TotalPool == {[loc |-> 0, lloc |-> 0, sloc |-> 0, comments |-> 0],
              [loc |-> 30, lloc |-> 24, sloc |-> 27, comments |-> 3]}

MiLine(i, p, r, s) == [info |-> i, path |-> p, rank |-> r, score |-> s]

MiLinePool == {MiLine(FALSE, P_rel, "A", 923), MiLine(FALSE, P_rel, "C", 850),
               MiLine(FALSE, P_pre, "A", 849), MiLine(FALSE, P_lib, "B", 650),
               MiLine(FALSE, P_lib, "D", 500), MiLine(FALSE, P_pre, "F", 499),
               MiLine(TRUE, P_rel, "A", 923)}

CcFile(p) == [kind |-> "file", path |-> p]
CcBlock(t, n, r, s) ==
    [kind |-> "block", tag |-> t, name |-> n, rank |-> r, score |-> s]
CcAverage(r, s) == [kind |-> "average", rank |-> r, score |-> s]

CcBodyPool == {CcFile(P_rel), CcFile(P_lib), CcBlock("F", "foo", "A", 3)}

CcAveragePool == {CcAverage("A", 0), CcAverage("B", 62)}

Row(p, f, n, s) == [path |-> p, file |-> f, symbol |-> n, score |-> s]

RowPool == {Row(P_rel, "a.py", "foo", 7), Row(P_bare, "a.py", "foo", 5),
            Row(P_rel, "a.py", "bar", 2)}

CognitiveTotals == {0, 7}

Sentence(w, c, f, t) ==
    [warning |-> w, count |-> c, functions |-> f, threshold |-> t]

SentencePool == {Sentence(w, c, f, t) :
                    w \in BOOLEAN, c \in {0, 3, 12}, f \in BOOLEAN, t \in {TRUE, FALSE}}

RawSec(p, b, t) == [present |-> p, blocks |-> b, total |-> t]
CcSec(p, l) == [present |-> p, lines |-> l]
MiSec(p, l) == [present |-> p, lines |-> l]
Flake8Sec(p, s) == [present |-> p, sentence |-> s]
CxSec(p, r, t) == [present |-> p, rows |-> r, total |-> t]

\* reports that vary the aggregates and the presence of every section
SummaryReports ==
    [target : {<<T_abs>>},
     raw : {RawSec(FALSE, <<>>, <<>>)} \cup {RawSec(TRUE, <<>>, t) : t \in Opt(TotalPool)},
     cc : {CcSec(FALSE, <<>>)} \cup {CcSec(TRUE, l) : l \in Opt(CcAveragePool)},
     mi : {MiSec(FALSE, <<>>), MiSec(TRUE, <<>>)},
     flake8 : {Flake8Sec(FALSE, <<>>)} \cup {Flake8Sec(TRUE, s) : s \in Opt(SentencePool)},
     complexipy : {CxSec(FALSE, <<>>, <<>>)}
                    \cup {CxSec(TRUE, <<>>, t) : t \in Opt(CognitiveTotals)}]

\* reports that vary the file-level records
FileReports ==
    [target : Targets,
     raw : {RawSec(FALSE, <<>>, <<>>)}
             \cup {RawSec(TRUE, b, <<>>) : b \in SeqsUpTo(RawBlockPool, MaxRecs)},
     cc : {CcSec(FALSE, <<>>)},
     mi : {MiSec(FALSE, <<>>)}
            \cup {MiSec(TRUE, l) : l \in SeqsUpTo(MiLinePool, MaxRecs)},
     flake8 : {Flake8Sec(FALSE, <<>>)},
     complexipy : {CxSec(FALSE, <<>>, <<>>)}]

\* reports that vary the symbol-level records
SymbolReports ==
    [target : Targets,
     raw : {RawSec(FALSE, <<>>, <<>>)},
     cc : {CcSec(FALSE, <<>>)}
            \cup {CcSec(TRUE, l \o <<CcAverage("A", 0)>>) :
                    l \in SeqsUpTo(CcBodyPool, MaxRecs + 1)},
     mi : {MiSec(FALSE, <<>>)},
     flake8 : {Flake8Sec(FALSE, <<>>)},
     complexipy : {CxSec(FALSE, <<>>, <<>>)}
                    \cup {CxSec(TRUE, r, <<>>) : r \in SeqsUpTo(RowPool, MaxRecs)}]

Reports == SummaryReports \cup FileReports \cup SymbolReports

NoCall == [op |-> "none", path |-> Pth(FALSE, <<>>), symbol_name |-> "",
           data_dict |-> EmptyDict]

(***************************************************************************)
(* main on one report                                                      *)
(***************************************************************************)
Init ==
    /\ report \in Reports
    /\ project_root_path = DetectRoot(report)
    /\ temp_file_metrics = <<>>
    /\ temp_symbol_metrics = <<>>
    /\ overall_summary = EmptyDict
    /\ file_level_metrics = <<>>
    /\ symbol_level_metrics = <<>>
    /\ pc = "radon_raw"
    /\ call = NoCall
    /\ ncalls = 0

Cur == [files |-> temp_file_metrics, symbols |-> temp_symbol_metrics,
        summary |-> overall_summary]

Advance(st, next) ==
    /\ temp_file_metrics' = st.files
    /\ temp_symbol_metrics' = st.symbols
    /\ overall_summary' = st.summary
    /\ pc' = next
    /\ UNCHANGED <<project_root_path, file_level_metrics,
                   symbol_level_metrics, report, call, ncalls>>

RadonRaw ==
    /\ pc = "radon_raw"
    /\ Advance(RadonRawPhase(Cur, report, project_root_path), "radon_cc")

RadonCC ==
    /\ pc = "radon_cc"
    /\ Advance(RadonCCPhase(Cur, report, project_root_path), "radon_mi")

RadonMI ==
    /\ pc = "radon_mi"
    /\ Advance(RadonMIPhase(Cur, report, project_root_path), "flake8")

Flake8 ==
    /\ pc = "flake8"
    /\ Advance(Flake8Phase(Cur, report, project_root_path), "complexipy")

Complexipy ==
    /\ pc = "complexipy"
    /\ Advance(ComplexipyPhase(Cur, report, project_root_path), "sort")

SortResults ==
    /\ pc = "sort"
    /\ file_level_metrics' = StableSort(Values(temp_file_metrics),
                        [i \in 1..Len(temp_file_metrics) |->
                            MiKey(temp_file_metrics[i].data)])
    /\ symbol_level_metrics' = StableSort(Values(temp_symbol_metrics),
                        [i \in 1..Len(temp_symbol_metrics) |->
                            CcKey(temp_symbol_metrics[i].data)])
    /\ pc' = "done"
    /\ UNCHANGED <<project_root_path, temp_file_metrics, temp_symbol_metrics,
                   overall_summary, report, call, ncalls>>

Next ==
    \/ RadonRaw
    \/ RadonCC
    \/ RadonMI
    \/ Flake8
    \/ Complexipy
    \/ SortResults

Spec == Init /\ [][Next]_vars

(***************************************************************************)
(* The two closures on their own: any sequence of calls, with arguments    *)
(* of the shapes the extractors build.  update_file_metric is called as    *)
(* main calls it (path = the record's file_path); update_symbol_metric is  *)
(* called with path and symbol_name drawn independently of the record, so  *)
(* that the name-conflict branches of lines 303-314, which the calls of    *)
(* main never take, are exercised.                                         *)
(***************************************************************************)
Cwd == <<"home">>

Root_abs == [found |-> TRUE, path |-> normpath(T_abs)]
Root_rel == [found |-> TRUE, path |-> normpath(T_rel)]

MergeRoots == {Root_abs, Root_rel, NoRoot}

\* files under the root, by their components below it
RelFiles == {<<"pkg", "a.py">>, <<"a.py">>, <<"proj", "a.py">>}

RelSpelling(f) == Pth(FALSE, f)

PrefixedSpelling(R, f) == Pth(FALSE, <<R.path.segs[Len(R.path.segs)]>> \o f)

AbsSpelling(R, f) ==
    Pth(TRUE, (IF R.path.abs THEN <<>> ELSE Cwd) \o R.path.segs \o f)

Spellings(R, f) == {RelSpelling(f), PrefixedSpelling(R, f), AbsSpelling(R, f)}

CallPaths == UNION {Spellings(R, f) : R \in {Root_abs, Root_rel}, f \in RelFiles}

FileRecords ==
    UNION {
      {parse_radon_raw_section(
          [blocks |-> <<Counters(p, 10, 8, 9, 1)>>, total |-> <<>>]).files[1],
       parse_radon_raw_section(
          [blocks |-> <<Counters(p, 0, 0, 0, 0)>>, total |-> <<>>]).files[1],
       parse_radon_mi_section(<<MiLine(FALSE, p, "A", 923)>>).files[1]}
      : p \in CallPaths}

SymbolNames == {"foo", "bar"}

SymbolCallPaths == {P_rel, P_pre}

SymbolRecords ==
    {parse_radon_cc_section(
        <<CcFile(P_rel), CcBlock("F", "foo", "A", 3)>>).symbols[1],
     parse_radon_cc_section(
        <<CcFile(P_rel), CcBlock("M", "bar", "B", 7)>>).symbols[1],
     parse_complexipy_section(
        [rows |-> <<Row(P_rel, "a.py", "foo", 7)>>, total |-> <<>>]).symbols[1],
     parse_complexipy_section(
        [rows |-> <<Row(P_rel, "a.py", "bar", 2)>>, total |-> <<>>]).symbols[1]}

EmptyReport ==
    [target |-> <<>>, raw |-> RawSec(FALSE, <<>>, <<>>), cc |-> CcSec(FALSE, <<>>),
     mi |-> MiSec(FALSE, <<>>), flake8 |-> Flake8Sec(FALSE, <<>>),
     complexipy |-> CxSec(FALSE, <<>>, <<>>)]

InitMerge ==
    /\ report = EmptyReport
    /\ project_root_path \in MergeRoots
    /\ temp_file_metrics = <<>>
    /\ temp_symbol_metrics = <<>>
    /\ overall_summary = EmptyDict
    /\ file_level_metrics = <<>>
    /\ symbol_level_metrics = <<>>
    /\ pc = "merge"
    /\ call = NoCall
    /\ ncalls = 0

UpdateFile ==
    /\ pc = "merge"
    /\ ncalls < MaxCalls
    /\ \E fm \in FileRecords :
         /\ temp_file_metrics' =
               update_file_metric(temp_file_metrics, project_root_path,
                                  fm.file_path, fm)
         /\ call' = [op |-> "update_file_metric", path |-> fm.file_path,
                     symbol_name |-> "", data_dict |-> fm]
    /\ ncalls' = ncalls + 1
    /\ UNCHANGED <<project_root_path, temp_symbol_metrics, overall_summary,
                   file_level_metrics, symbol_level_metrics, report, pc>>

UpdateSymbol ==
    /\ pc = "merge"
    /\ ncalls < MaxCalls
    /\ \E path \in SymbolCallPaths, symbol_name \in SymbolNames,
          sm \in SymbolRecords :
         /\ temp_symbol_metrics' =
               update_symbol_metric(temp_symbol_metrics, project_root_path,
                                    path, symbol_name, sm)
         /\ call' = [op |-> "update_symbol_metric", path |-> path,
                     symbol_name |-> symbol_name, data_dict |-> sm]
    /\ ncalls' = ncalls + 1
    /\ UNCHANGED <<project_root_path, temp_file_metrics, overall_summary,
                   file_level_metrics, symbol_level_metrics, report, pc>>

NextMerge ==
    \/ UpdateFile
    \/ UpdateSymbol

SpecMerge == InitMerge /\ [][NextMerge]_vars

(***************************************************************************)
(* Properties                                                              *)
(***************************************************************************)
Entries(store) == {store[i] : i \in 1..Len(store)}

Tools == {"radon_raw", "radon_cc", "radon_mi", "flake8", "complexipy"}

Orders == {o \in [1..5 -> Tools] : \A i, j \in 1..5 : o[i] = o[j] => i = j}

ApplyTool(tool, st, rep, base) ==
    CASE tool = "radon_raw" -> RadonRawPhase(st, rep, base)
      [] tool = "radon_cc" -> RadonCCPhase(st, rep, base)
      [] tool = "radon_mi" -> RadonMIPhase(st, rep, base)
      [] tool = "flake8" -> Flake8Phase(st, rep, base)
      [] tool = "complexipy" -> ComplexipyPhase(st, rep, base)

RECURSIVE RunTools(_, _, _, _)
RunTools(order, st, rep, base) ==
    IF order = <<>> THEN st
    ELSE RunTools(Tail(order), ApplyTool(Head(order), st, rep, base), rep, base)

EmptyStores == [files |-> <<>>, symbols |-> <<>>, summary |-> EmptyDict]

\* C1: once main has merged a report, merging the same report's records
\* with the five tools taken in any other order gives the same FileEntity
\* and SymbolEntity keys and the same fields in each entity.
C1_MergeCommutes ==
    pc = "done" =>
        \A o \in Orders :
            LET st == RunTools(o, EmptyStores, report, project_root_path)
            IN /\ Entries(st.files) = Entries(temp_file_metrics)
               /\ Entries(st.symbols) = Entries(temp_symbol_metrics)

(***************************************************************************)
(* C2                                                                      *)
(***************************************************************************)
CallKeyPath == get_normalized_path(call.path, project_root_path)

LandsOn(F) ==
    /\ CallKeyPath = F
    /\ call.op = "update_file_metric" => HasKey(temp_file_metrics, F)
    /\ call.op = "update_symbol_metric" =>
           HasKey(temp_symbol_metrics, <<F, call.symbol_name>>)

\* C2: for every detected root R and every file F under R, a
\* record whose path is any of the three spellings of F (relative to R,
\* prefixed with R's final segment, absolute) is normalised to F's absolute
\* path and lands on that store key.
C2_SpellingsAgree ==
    (project_root_path.found /\ call.op # "none") =>
        \A f \in RelFiles :
            call.path \in Spellings(project_root_path, f)
                => LandsOn(AbsSpelling(project_root_path, f))

(***************************************************************************)
(* C3, C4, C5: the reconciliation loop and the identity fields, on main    *)
(***************************************************************************)
RowKey(r) == <<get_normalized_path(r.path, project_root_path), r.symbol>>

Carries(store, key, r) ==
    /\ HasKey(store, key)
    /\ Has(Entity(store, key), "cognitive_complexity")
    /\ Entity(store, key)["cognitive_complexity"] = r.score

\* C3: a cognitive-complexity row is merged into the entity keyed by its own
\* identity when that entity exists; otherwise into an existing entity
\* with the row's file name and symbol name, creating no key; otherwise
\* into exactly one new entity under its own identity.  Stated of the step
\* of main that reconciles a section of one row.
C3_ThreeTier ==
    [][(pc = "complexipy" /\ complexipy_match(report)
          /\ Len(report.complexipy.rows) = 1) =>
        LET r == report.complexipy.rows[1]
            key == RowKey(r)
            sm == parse_complexipy_section(
                      [rows |-> <<r>>, total |-> <<>>]).symbols[1]
            candidates == FallbackMatches(temp_symbol_metrics, sm)
        IN IF HasKey(temp_symbol_metrics, key)
           THEN /\ Keys(temp_symbol_metrics') = Keys(temp_symbol_metrics)
                /\ Carries(temp_symbol_metrics', key, r)
                /\ Has(Entity(temp_symbol_metrics, key), "cc_score") =>
                      Has(Entity(temp_symbol_metrics', key), "cc_score")
           ELSE IF candidates # {}
           THEN /\ Keys(temp_symbol_metrics') = Keys(temp_symbol_metrics)
                /\ \E i \in candidates :
                      Carries(temp_symbol_metrics',
                              temp_symbol_metrics[i].key, r)
           ELSE /\ Keys(temp_symbol_metrics') =
                      Keys(temp_symbol_metrics) \cup {key}
                /\ Carries(temp_symbol_metrics', key, r)]_vars

\* C4: (1) no two SymbolEntities have the same (file, symbol) key; (2) a
\* row whose path cell names a directory, hence a definite file X under
\* the root, is never found merged into the entity of another file Y.
\* Stated for a detected absolute root.
C4_NoUnrelatedMerge ==
    (project_root_path.found /\ project_root_path.path.abs) =>
        /\ \A i, j \in 1..Len(temp_symbol_metrics) :
              temp_symbol_metrics[i].key = temp_symbol_metrics[j].key => i = j
        /\ \A i \in 1..Len(temp_symbol_metrics) :
              LET e == temp_symbol_metrics[i]
              IN (Has(e.data, "complexipy_path")
                    /\ Len(normpath(e.data["complexipy_path"]).segs) > 1)
                 => get_normalized_path(e.data["complexipy_path"],
                                        project_root_path) = e.key[1]

\* C5: every FileEntity's file_path is its key, and every SymbolEntity's
\* (file_path, symbol_name) is its key.
C5_FieldsEqualKey ==
    /\ \A i \in 1..Len(temp_file_metrics) :
          temp_file_metrics[i].data["file_path"] = temp_file_metrics[i].key
    /\ \A i \in 1..Len(temp_symbol_metrics) :
          /\ temp_symbol_metrics[i].data["file_path"] =
                temp_symbol_metrics[i].key[1]
          /\ temp_symbol_metrics[i].data["symbol_name"] =
                temp_symbol_metrics[i].key[2]

(***************************************************************************)
(* C6, C7: the contract of the two closures                                *)
(***************************************************************************)
IsFileCall(c) == c.op = "update_file_metric"

IsSymbolCall(c) == c.op = "update_symbol_metric"

KeyOfCall(c) ==
    IF IsFileCall(c) THEN get_normalized_path(c.path, project_root_path)
    ELSE <<get_normalized_path(c.path, project_root_path), c.symbol_name>>

\* the entity as the call finds it, a missing one being created first
Found(store, c) ==
    IF HasKey(store, KeyOfCall(c)) THEN Entity(store, KeyOfCall(c))
    ELSE IF IsFileCall(c) THEN [file_path |-> KeyOfCall(c)]
    ELSE [file_path |-> KeyOfCall(c)[1], symbol_name |-> c.symbol_name]

OthersKept(old_store, new_store, key) ==
    /\ Keys(old_store) \subseteq Keys(new_store)
    /\ Len(new_store) =
          Len(old_store) + (IF HasKey(old_store, key) THEN 0 ELSE 1)
    /\ \A i \in 1..Len(old_store) :
          old_store[i].key # key => new_store[i] = old_store[i]

PlainUpsert(old_store, new_store, c) ==
    LET old == Found(old_store, c)
        new == Entity(new_store, KeyOfCall(c))
        d == c.data_dict
    IN /\ HasKey(new_store, KeyOfCall(c))
       /\ OthersKept(old_store, new_store, KeyOfCall(c))
       /\ DOMAIN new = DOMAIN old \cup DOMAIN d
       /\ \A k \in DOMAIN d : new[k] = d[k]
       /\ \A k \in DOMAIN old \ DOMAIN d : new[k] = old[k]

SameCallTwice ==
    call' = call =>
        /\ temp_file_metrics' = temp_file_metrics
        /\ temp_symbol_metrics' = temp_symbol_metrics

NameConflict(old, k, v) ==
    \/ /\ k = "symbol_name_complexipy"
       /\ IsSymbolCall(call')
       /\ Has(old, "symbol_name")
       /\ old["symbol_name"] # v
    \/ /\ k = "symbol_name"
       /\ IsSymbolCall(call')
       /\ Has(old, "symbol_name_complexipy")
       /\ old["symbol_name_complexipy"] # v

AltOf(k) ==
    IF k = "symbol_name_complexipy" THEN "symbol_name_complexipy_alt"
    ELSE "symbol_name_original_alt"

UpsertWithAlt(old_store, new_store, c) ==
    LET old == Found(old_store, c)
        new == Entity(new_store, KeyOfCall(c))
        d == c.data_dict
        written == {k \in DOMAIN d : ~NameConflict(old, k, d[k])}
        diverted == {AltOf(k) : k \in {x \in DOMAIN d : NameConflict(old, x, d[x])}}
    IN /\ HasKey(new_store, KeyOfCall(c))
       /\ OthersKept(old_store, new_store, KeyOfCall(c))
       /\ DOMAIN new = DOMAIN old \cup written \cup diverted
       /\ \A k \in written : new[k] = d[k]
       /\ \A k \in DOMAIN d :
             NameConflict(old, k, d[k]) => new[AltOf(k)] = d[k]
       /\ \A k \in DOMAIN old \ (written \cup diverted) : new[k] = old[k]

Kind(k) ==
    IF k \in {"file_path", "complexipy_path"} THEN "path"
    ELSE IF k \in {"loc", "lloc", "sloc", "comments", "mi_score", "cc_score",
                   "cognitive_complexity"} THEN "number"
    ELSE "text"

\* the value v, contributed under field k, is in some field of the entity
Present(v, k, entity) ==
    \E k2 \in DOMAIN entity : Kind(k2) = Kind(k) /\ entity[k2] = v

Updated(store, c) == Entity(store, KeyOfCall(c))

Store(c) == IF IsFileCall(c) THEN temp_file_metrics ELSE temp_symbol_metrics

StoreAfter(c) ==
    IF IsFileCall(c) THEN temp_file_metrics' ELSE temp_symbol_metrics'

\* C7 (as claimed): a conflicting incoming name goes to the alt field and
\* the existing name is kept, and an update loses nothing: every metric
\* value or name the entity held, and every incoming one, is in some field
\* of the entity afterwards.
C7_NothingDiscarded ==
    [][LET old == Found(Store(call'), call')
           new == Updated(StoreAfter(call'), call')
           d == call'.data_dict
       IN /\ \A k \in DOMAIN d :
                NameConflict(old, k, d[k]) =>
                    /\ Has(new, AltOf(k))
                    /\ new[AltOf(k)] = d[k]
                    /\ \A n \in {"symbol_name", "symbol_name_complexipy"} :
                          Has(old, n) => (Has(new, n) /\ new[n] = old[n])
          /\ \A k \in DOMAIN d : Kind(k) # "path" => Present(d[k], k, new)
          /\ HasKey(Store(call'), KeyOfCall(call')) =>
                \A k \in DOMAIN old :
                    Kind(k) # "path" => Present(old[k], k, new)]_vars

\* C7 (amended): a conflicting incoming name goes to the alt field and the
\* existing name fields are kept; every other incoming field replaces the
\* entity's field of that name.  The entity never loses a field name, but
\* of each field (the alt fields included) it keeps the value contributed
\* last, not every value.
C7_LastValueKept ==
    [][LET old == Found(Store(call'), call')
           new == Updated(StoreAfter(call'), call')
           d == call'.data_dict
       IN /\ \A k \in DOMAIN d :
                IF NameConflict(old, k, d[k])
                THEN /\ Has(new, AltOf(k))
                     /\ new[AltOf(k)] = d[k]
                     /\ \A n \in {"symbol_name", "symbol_name_complexipy"} :
                           Has(old, n) => (Has(new, n) /\ new[n] = old[n])
                ELSE Has(new, k) /\ new[k] = d[k]
          /\ DOMAIN old \subseteq DOMAIN new]_vars

\* C7 witness: a row named bar has met an entity named foo; bar is in
\* symbol_name_complexipy_alt and foo is still the symbol_name.
C7_Witness ==
    \E i \in 1..Len(temp_symbol_metrics) :
        LET e == temp_symbol_metrics[i].data
        IN /\ Has(e, "symbol_name_complexipy_alt")
           /\ e["symbol_name_complexipy_alt"] = "bar"
           /\ e["symbol_name"] = "foo"
           /\ Has(e, "cognitive_complexity")
           /\ IsSymbolCall(call)
           /\ call.data_dict["cognitive_complexity"] = e["cognitive_complexity"]

(***************************************************************************)
(* C8, C9, C10: the summary and the file entities at the end of main       *)
(***************************************************************************)
LintField == "flake8_high_cc_functions_count"

\* the sentence states its count in a form the extractor reads: the full
\* "[WARNING] Flake8 found <n> function(s) with CC > <m>." or any text
\* holding "Flake8 found 0 function(s)"
StatesCount(s) ==
    \/ s.warning /\ s.functions /\ s.threshold
    \/ s.count = 0 /\ s.functions

\* C8: once main is past the lint section, the summary has no lint count
\* if the section is absent, the stated count n (0 included) if the section
\* states one, and -1 if the section is present without a readable count.
C8_LintThreeWay ==
    pc \in {"complexipy", "sort", "done"} =>
        IF ~report.flake8.present
        THEN ~Has(overall_summary, LintField)
        ELSE /\ Has(overall_summary, LintField)
             /\ overall_summary[LintField] =
                   IF /\ report.flake8.sentence # <<>>
                      /\ StatesCount(report.flake8.sentence[1])
                   THEN report.flake8.sentence[1].count
                   ELSE -1

\* C8 witness: "Flake8 found 0 function(s)" without the [WARNING] form has
\* been read as 0, not as -1.
C8_Witness ==
    /\ pc = "done"
    /\ report.flake8.present
    /\ report.flake8.sentence # <<>>
    /\ ~report.flake8.sentence[1].warning
    /\ report.flake8.sentence[1].count = 0
    /\ Has(overall_summary, LintField)
    /\ overall_summary[LintField] = 0

RawTotalFields == {"total_loc_radon", "total_lloc_radon", "total_sloc_radon",
                   "total_comments_radon"}

AverageFields == {"average_cc_rank_radon", "average_cc_score"}

AverageLines(rep) ==
    {i \in 1..Len(rep.cc.lines) : rep.cc.lines[i].kind = "average"}

\* C9: at the end of main each tool's summary fields are unset if its
\* section is absent or states no aggregate, and hold the stated aggregate,
\* a 0 included, otherwise, whatever the other sections are.
C9_AggregatesUnsetOrExact ==
    pc = "done" =>
        /\ IF report.raw.present /\ report.raw.total # <<>>
           THEN /\ RawTotalFields \subseteq DOMAIN overall_summary
                /\ overall_summary["total_loc_radon"] = report.raw.total[1].loc
                /\ overall_summary["total_lloc_radon"] = report.raw.total[1].lloc
                /\ overall_summary["total_sloc_radon"] = report.raw.total[1].sloc
                /\ overall_summary["total_comments_radon"] =
                      report.raw.total[1].comments
           ELSE RawTotalFields \cap DOMAIN overall_summary = {}
        /\ IF report.cc.present /\ AverageLines(report) # {}
           THEN LET last == report.cc.lines[
                               CHOOSE i \in AverageLines(report) :
                                  \A j \in AverageLines(report) : j <= i]
                IN /\ AverageFields \subseteq DOMAIN overall_summary
                   /\ overall_summary["average_cc_score"] = last.score
                   /\ overall_summary["average_cc_rank_radon"] = last.rank
           ELSE AverageFields \cap DOMAIN overall_summary = {}
        /\ Has(overall_summary, LintField) <=> report.flake8.present
        /\ IF report.complexipy.present /\ report.complexipy.total # <<>>
           THEN /\ Has(overall_summary, "total_cognitive_complexity")
                /\ overall_summary["total_cognitive_complexity"] =
                      report.complexipy.total[1]
           ELSE ~Has(overall_summary, "total_cognitive_complexity")

\* C9 witness: no cyclomatic-complexity section, so no average, while the
\* zero raw totals and the zero cognitive total of the other sections are
\* stored as 0.
C9_Witness ==
    /\ pc = "done"
    /\ ~report.cc.present
    /\ ~Has(overall_summary, "average_cc_score")
    /\ ~Has(overall_summary, "average_cc_rank_radon")
    /\ Has(overall_summary, "total_loc_radon")
    /\ overall_summary["total_loc_radon"] = 0
    /\ Has(overall_summary, "total_cognitive_complexity")
    /\ overall_summary["total_cognitive_complexity"] = 0
    /\ Has(overall_summary, LintField)

Located(F) == get_normalized_path(F, project_root_path)

\* the last element of seq that satisfies Test
LastThat(seq, Test(_)) ==
    seq[CHOOSE i \in 1..Len(seq) :
           /\ Test(seq[i])
           /\ \A j \in 1..Len(seq) : Test(seq[j]) => j <= i]

\* C10: at the end of main, a file with a raw-size block and a
\* maintainability line under the same CanonicalPath has exactly one
\* FileEntity, which holds the counters of its last block, the score of its
\* last line, and the rank the thresholds 85 / 65 / 50 give that score,
\* whatever rank letter the line carries.
C10_RawAndMiInOneEntity ==
    (pc = "done" /\ report.raw.present /\ report.mi.present) =>
        \A b \in Entries(report.raw.blocks) :
        \A l \in Entries(report.mi.lines) :
            (~l.info /\ Located(b.path) = Located(l.path)) =>
                LET K == Located(b.path)
                    e == Entity(temp_file_metrics, K)
                    lb == LastThat(report.raw.blocks,
                                   LAMBDA x : Located(x.path) = K)
                    ll == LastThat(report.mi.lines,
                                   LAMBDA x : ~x.info /\ Located(x.path) = K)
                IN /\ Cardinality({i \in 1..Len(temp_file_metrics) :
                                      temp_file_metrics[i].key = K}) = 1
                   /\ {"loc", "lloc", "sloc", "comments", "mi_score",
                       "mi_rank_custom"} \subseteq DOMAIN e
                   /\ e["loc"] = lb.loc /\ e["lloc"] = lb.lloc
                   /\ e["sloc"] = lb.sloc /\ e["comments"] = lb.comments
                   /\ e["mi_score"] = ll.score
                   /\ e["mi_rank_custom"] =
                         IF ll.score >= 850 THEN "Excellent"
                         ELSE IF ll.score >= 650 THEN "Good"
                         ELSE IF ll.score >= 500 THEN "Moderate"
                         ELSE "Difficult"

\* C10 witness: root /proj, block pkg/a.py 10/8/9/1 and line
\* "pkg/a.py - A (92.3)" have given the one entity /proj/pkg/a.py.
C10_Witness ==
    /\ pc = "done"
    /\ project_root_path = Root_abs
    /\ report.raw.blocks = <<Counters(P_rel, 10, 8, 9, 1)>>
    /\ report.mi.lines = <<MiLine(FALSE, P_rel, "A", 923)>>
    /\ Keys(temp_file_metrics) = {P_abs}
    /\ LET e == Entity(temp_file_metrics, P_abs)
       IN /\ e["loc"] = 10 /\ e["lloc"] = 8 /\ e["sloc"] = 9
          /\ e["comments"] = 1
          /\ e["mi_score"] = 923
          /\ e["mi_rank_custom"] = "Excellent"

====
